---- MODULE Spec2Model ----
(***************************************************************************)
(* A model of the Copilot-extension proxy: the /completion handler of      *)
(* server.py (validation, the server-sent-event generator, the call of the *)
(* product documentation agent) and the token lifecycle of AgentWrapper.   *)
(*                                                                         *)
(* Seven specifications share the variables:                               *)
(*   Spec         the server: NumReq requests handled on one event loop;   *)
(*   SpecSingle   the server handling one request;                         *)
(*   SpecWrapper  one long-lived AgentWrapper instance called repeatedly   *)
(*                while the clock advances;                                *)
(*   SpecStream   stream_response driven with the agent stubbed to return  *)
(*                a fixed text;                                            *)
(*   SpecPrompt   product_documentation_agent building its prompt from a   *)
(*                latest message with copilot_references;                  *)
(*   SpecPair     two validated requests interleaved on one event loop;    *)
(*   SpecConversation  two requests with message lists of several          *)
(*                messages, get_response stubbed to one answer.            *)
(***************************************************************************)
EXTENDS Integers, Sequences, FiniteSets, TLC

\* ------------------------------------------------------------------ bounds

\* number of concurrent requests of Spec
NumReq == 2
\* the clock runs over 0..MaxClock; issued tokens expire at 1..MaxClock
MaxClock == 2
\* longest message list of a request body
MaxMsgs == 2
\* longest stubbed agent answer of SpecStream, in symbols
MaxLen == 4
\* longest copilot_references list of a message
MaxRefs == 2

Reqs == 1..NumReq

\* ------------------------------------------------------------------- texts
\* A text is a sequence of symbols.  A symbol is a whitespace character or a
\* fragment without whitespace (a letter, or a whole word where the letters
\* inside the word do not matter).

Whitespace == {" ", "\n"}

IsSpace(c) == c \in Whitespace

\* str.split() with no argument: a left-to-right scan that cuts at every run
\* of whitespace and drops empty pieces.  cur is the piece being collected.
RECURSIVE split_scan(_, _, _, _)
split_scan(text, i, cur, acc) ==
    IF i > Len(text)
    THEN IF cur # <<>> THEN Append(acc, cur) ELSE acc
    ELSE IF IsSpace(text[i])
         THEN split_scan(text, i + 1, <<>>,
                         IF cur # <<>> THEN Append(acc, cur) ELSE acc)
         ELSE split_scan(text, i + 1, Append(cur, text[i]), acc)

split(text) == split_scan(text, 1, <<>>, <<>>)

\* str.strip() with no argument
RECURSIVE lstrip(_)
lstrip(text) ==
    IF text # <<>> /\ IsSpace(Head(text)) THEN lstrip(Tail(text)) ELSE text

RECURSIVE rstrip(_)
rstrip(text) ==
    IF text # <<>> /\ IsSpace(text[Len(text)])
    THEN rstrip(SubSeq(text, 1, Len(text) - 1))
    ELSE text

strip(text) == rstrip(lstrip(text))

\* chunk_text mutated: the text is not split at all
chunk_text_whole(text) == <<text>>

\* chunk_text of stream_response
chunk_text(text) ==
    LET words == split(text) IN IF words # <<>> THEN words ELSE <<text>>

\* the guard of the streaming loop mutated: every chunk is emitted
chunk_is_emitted_always(chunk) == TRUE

\* the guard `if chunk.strip():` of the streaming loop
chunk_is_emitted(chunk) == strip(chunk) # <<>>

\* the return value of product_documentation_agent when the configuration is
\* incomplete, one symbol per word
CONFIG_ERROR_TEXT ==
    << "Error:", " ", "Agent", " ", "configuration", " ", "incomplete.", " ",
       "Please", " ", "check", " ", "environment", " ", "variables." >>

\* -------------------------------------------------------------- SSE events

Delta(c) == [kind |-> "delta", content |-> c, null |-> FALSE, finish_reason |-> "none"]

\* b'data: {"choices":[{"index":0,"delta":{"content":""}}]}\n\n'
INITIAL_CHUNK == Delta(<<>>)

\* word_chunk mutated: the trailing space is left out
word_chunk_no_space(chunk) == Delta(chunk)

\* the chunk built from one word: content is chunk + " "
word_chunk(chunk) == Delta(chunk \o <<" ">>)

\* b'data: {"choices":[{"index":0,"delta":{"content":" "}}]}\n\n'
KEEPALIVE_CHUNK == Delta(<<" ">>)

\* the delta with content null and finish_reason "stop"
final_chunk == [kind |-> "delta", content |-> <<>>, null |-> TRUE, finish_reason |-> "stop"]

\* b"data: [DONE]\n\n"
done_chunk == [kind |-> "done", content |-> <<>>, null |-> TRUE, finish_reason |-> "none"]

\* ------------------------------------------------------------------ tokens
\* A token value as AgentWrapper sees it: None, a string that is no JWT, a JWT
\* without exp claim, or a JWT whose exp claim is exp.

NoneToken == [kind |-> "none", exp |-> 0]
MalformedToken == [kind |-> "malformed", exp |-> 0]
NoExpToken == [kind |-> "noexp", exp |-> 0]
Jwt(e) == [kind |-> "jwt", exp |-> e]

\* what the token endpoint may put in "refresh_token" / "access_token"
IssuedTokens ==
    {MalformedToken, NoExpToken} \cup {Jwt(e) : e \in 1..MaxClock}

\* Python truthiness of a token field: None is falsy, a token string is not
Truthy(tok) == tok.kind # "none"

\* is_token_expired mutated: a token without exp claim is a decode error
is_token_expired_require_exp(token, now) ==
    CASE token.kind = "jwt" -> IF token.exp <= now THEN "True" ELSE "False"
      [] OTHER -> "DecodeError"

\* is_token_expired: jwt.decode with verify_signature off and verify_exp on.
\* ExpiredSignatureError gives True; a token that decodes, with an exp claim
\* in the future or with none, gives False; any other decode failure is
\* re-raised.
is_token_expired(token, now) ==
    CASE token.kind = "jwt" -> IF token.exp <= now THEN "True" ELSE "False"
      [] token.kind = "noexp" -> "False"
      [] OTHER -> "DecodeError"

\* the refresh condition mutated: the expiry of a stored token is not checked
token_decision_no_expiry(token, now) ==
    IF ~Truthy(token) THEN "issue" ELSE "keep"

\* the refresh condition mutated: a token is requested on every call
token_decision_always(token, now) == "issue"

\* the refresh condition mutated: a token that does not decode is kept, as
\* if is_token_expired caught every exception and returned False
token_decision_swallow_decode_error(token, now) ==
    IF ~Truthy(token) \/ is_token_expired(token, now) = "True"
    THEN "issue"
    ELSE "keep"

\* `not self.X_token or self.is_token_expired(self.X_token)` of
\* refresh_tokens_if_needed: request a new token, keep the stored one, or
\* fail with the decode error
token_decision(token, now) ==
    IF ~Truthy(token)
    THEN "issue"
    ELSE CASE is_token_expired(token, now) = "True" -> "issue"
           [] is_token_expired(token, now) = "False" -> "keep"
           [] OTHER -> "raise"

\* the outcomes of one call of the token endpoint
TokenResponses ==
    [outcome : {"ok"}, token : IssuedTokens]
        \cup {[outcome |-> "http_error", token |-> NoneToken],
              [outcome |-> "transport_error", token |-> NoneToken]}

\* The outcomes of httpx.post / httpx.put for the URL built on api_base: a
\* URL without a scheme is refused by httpx before anything is sent.
token_responses(api_base) ==
    IF api_base = ""
    THEN {[outcome |-> "transport_error", token |-> NoneToken]}
    ELSE TokenResponses

\* the assignment of the token mutated: it runs before the status is looked
\* at, so a failed request clears the stored token
stored_token_cleared(resp, old) ==
    IF resp.outcome = "ok" THEN resp.token ELSE NoneToken

\* get_refresh_token / get_access_token after the request: the raise comes
\* before the assignment, so only a success replaces the stored token
stored_token(resp, old) ==
    IF resp.outcome = "ok" THEN resp.token ELSE old

\* the answers the documentation agent may give
AgentAnswers == {<<"a">>, <<"a", " ", " ", "b">>}

\* ------------------------------------------------------------ the request

NoneHeader == "None"

\* request.headers.get("x-github-token"): None, "" or a token
AuthValues == {NoneHeader, "", "ghu_token"}

\* ref of `for ref in latest_message["copilot_references"]`: its "type", its
\* "id" if it has one, and its "data" with or without "content"
RefTypes == {"client.file", "client.selection"}

RefIds == {"A", "B"}

RefContents == {"x", "y"}

References ==
    {ref \in [type : RefTypes, has_id : BOOLEAN, id : RefIds,
              has_data : BOOLEAN, has_content : BOOLEAN, content : RefContents] :
        /\ ~ref.has_id => ref.id = "A"
        /\ ~ref.has_data => ~ref.has_content
        /\ ~ref.has_content => ref.content = "x"}

\* latest_message.get("copilot_references"): None when the key is absent,
\* else a list of at most MaxRefs references
ReferenceLists ==
    [present : {TRUE}, list : UNION {[1..n -> References] : n \in 0..MaxRefs}]

NoReferences == [present |-> FALSE, list |-> <<>>]

\* the messages of the requests the server handles; their content is a text
Messages == [has_content : BOOLEAN, content : {<<"q">>}, refs : {NoReferences}]

MessageLists == UNION {[1..n -> Messages] : n \in 0..MaxMsgs}

\* the request body: not JSON, JSON that is no object, or an object with or
\* without the "messages" key
Bodies ==
    {[kind |-> "malformed", has_messages |-> FALSE, messages |-> <<>>],
     [kind |-> "nonobject", has_messages |-> FALSE, messages |-> <<>>],
     [kind |-> "object", has_messages |-> FALSE, messages |-> <<>>]}
        \cup [kind : {"object"}, has_messages : {TRUE}, messages : MessageLists]

Requests == [auth : AuthValues, body : Bodies]

NoRequest == [auth |-> NoneHeader,
              body |-> [kind |-> "malformed", has_messages |-> FALSE, messages |-> <<>>]]

\* the four values of the agent configuration, each empty or set
Configs == [api_base : {"", "set"}, agent_id : {"", "set"},
            agent_key : {"", "set"}, agent_endpoint : {"", "set"}]

\* completion mutated: an empty message list is not rejected
completion_status_no_empty_check(auth, body) ==
    IF body.kind # "object" THEN 500
    ELSE IF auth \in {NoneHeader, ""} THEN 401
    ELSE IF ~body.has_messages THEN 400
    ELSE IF body.messages = <<>> THEN 500
    ELSE IF ~body.messages[Len(body.messages)].has_content THEN 500
    ELSE 200

\* The status of the response of completion.  request.json() raises on a body
\* that is not JSON and req.get raises on JSON that is no object; then the
\* two checks; then latest_message['content'] raises when the last message
\* has no content.  An exception that leaves the handler is a 500.
completion_status(auth, body) ==
    IF body.kind # "object" THEN 500
    ELSE IF auth \in {NoneHeader, ""} THEN 401
    ELSE IF body.messages = <<>> THEN 400
    ELSE IF ~body.messages[Len(body.messages)].has_content THEN 500
    ELSE 200

\* the check of the configuration mutated: only agent_id is looked at
config_incomplete_id_only(cfg) == cfg.agent_id = ""

\* `if not config["agent_id"] or not config["agent_key"] or not config["agent_endpoint"]`
config_incomplete(cfg) ==
    cfg.agent_id = "" \/ cfg.agent_key = "" \/ cfg.agent_endpoint = ""

\* ------------------------------------------------------------- the prompt
\* The strings product_documentation_agent builds are sequences of pieces: a
\* piece is a symbol of the user's text, a literal of the code, or the id or
\* the content of a reference.

\* the test of a reference mutated: the type is not looked at
is_file_reference_any_type(ref) == ref.has_data /\ ref.has_content

\* `ref.get("type") == "client.file" and "data" in ref and "content" in ref["data"]`
is_file_reference(ref) ==
    ref.type = "client.file" /\ ref.has_data /\ ref.has_content

\* `file_name = ref.get("id", "UNKNOWN FILE")`
file_name(ref) == IF ref.has_id THEN ref.id ELSE "UNKNOWN FILE"

\* f"\n\nFILENAME:\n{file_name}\n\nCODE CONTENT:\n{code_content}"
code_block(ref) ==
    << "\n\nFILENAME:\n", file_name(ref), "\n\nCODE CONTENT:\n", ref.content >>

\* the loop over the references: the blocks appended to code_contexts
RECURSIVE append_code_contexts(_)
append_code_contexts(refs) ==
    IF refs = <<>>
    THEN <<>>
    ELSE (IF is_file_reference(Head(refs)) THEN <<code_block(Head(refs))>> ELSE <<>>)
            \o append_code_contexts(Tail(refs))

\* code_contexts after `if latest_message.get("copilot_references"):`, which
\* skips a missing and an empty list
code_contexts(latest_message) ==
    IF latest_message.refs.present /\ latest_message.refs.list # <<>>
    THEN append_code_contexts(latest_message.refs.list)
    ELSE <<>>

\* sep.join(parts)
RECURSIVE join(_, _)
join(sep, parts) ==
    IF parts = <<>> THEN <<>>
    ELSE IF Len(parts) = 1 THEN parts[1]
    ELSE parts[1] \o sep \o join(sep, Tail(parts))

CODE_SEPARATOR == "\n\n---\n\n"

NO_CODE_CONTEXT == "NO CODE CONTEXT PROVIDED."

\* `"\n\n---\n\n".join(code_contexts) if code_contexts else "NO CODE CONTEXT PROVIDED."`
code_context(latest_message) ==
    IF code_contexts(latest_message) # <<>>
    THEN join(<<CODE_SEPARATOR>>, code_contexts(latest_message))
    ELSE <<NO_CODE_CONTEXT>>

\* `latest_message.get("content", "").strip()`
user_query(latest_message) ==
    strip(IF latest_message.has_content THEN latest_message.content ELSE <<>>)

\* PROMPT_TEMPLATE.format(user_query=..., code_context=...): the template up
\* to {user_query}, between the two fields, and after {code_context}
agent_input(latest_message) ==
    <<"PROMPT_TEMPLATE[:user_query]">> \o user_query(latest_message)
        \o <<"PROMPT_TEMPLATE[user_query:code_context]">>
        \o code_context(latest_message)
        \o <<"PROMPT_TEMPLATE[code_context:]">>

\* ------------------------------------------------------------------- state

VARIABLES
    config,          \* the environment's agent configuration (read by os.getenv)
    request,         \* request[r]: the auth header and the body of request r
    pc,              \* pc[r]: where the handling of request r stands
    status,          \* status[r]: the HTTP status of the response, 0 before it
    events,          \* events[r]: the chunks the generator has yielded
    agent_response,  \* agent_response[r] of stream_response
    idx,             \* idx[r]: the chunk of response_chunks the loop is at
    running,         \* the request whose synchronous call holds the event loop, 0 if none
    wrapper,         \* wrapper[r]: refresh_token and access_token of the AgentWrapper
    call,            \* call[r]: the get_response / refresh_tokens_if_needed call in progress
    clock,           \* the time jwt.decode compares exp with
    stub             \* SpecStream: the text the stubbed agent returns

vars == << config, request, pc, status, events, agent_response, idx, running,
           wrapper, call, clock, stub >>

\* AgentWrapper.__init__ mutated: the tokens are those of an earlier instance
NewWrapper_kept_tokens == [refresh_token |-> NoExpToken, access_token |-> NoExpToken]

\* AgentWrapper.__init__: both tokens None
NewWrapper == [refresh_token |-> NoneToken, access_token |-> NoneToken]

\* The frame of one call: which method was called, the token requests it has
\* issued, each stored token and the time when its check ran, the last
\* is_token_expired evaluation, and how the call ended; the access token
\* stored when the refresh pass began and the tokens the two requests
\* returned; and, for a call made by product_documentation_agent, its locals
\* user_query and code_context and the message passed to get_response.
NewCall(m) ==
    [mode |-> m, posts |-> 0, puts |-> 0,
     rt_seen |-> NoneToken, rt_at |-> -1, at_seen |-> NoneToken, at_at |-> -1,
     exp_token |-> NoneToken, exp_now |-> -1, exp_result |-> "none",
     put_arg |-> NoneToken, chat_token |-> NoneToken, chat_calls |-> 0,
     result |-> <<>>, error |-> "none",
     at_entry |-> NoneToken, post_token |-> NoneToken, put_token |-> NoneToken,
     user_query |-> <<>>, code_context |-> <<>>, message |-> <<>>]

ServerVarsInit ==
    /\ request = [r \in Reqs |-> NoRequest]
    /\ status = [r \in Reqs |-> 0]
    /\ events = [r \in Reqs |-> <<>>]
    /\ agent_response = [r \in Reqs |-> <<>>]
    /\ idx = [r \in Reqs |-> 0]
    /\ running = 0
    /\ wrapper = [r \in Reqs |-> NewWrapper]
    /\ call = [r \in Reqs |-> NewCall("none")]
    /\ clock = 0

Init ==
    /\ config \in Configs
    /\ pc = [r \in Reqs |-> "recv"]
    /\ stub = <<>>
    /\ ServerVarsInit

\* ------------------------------------------------------------- completion

\* completion: parse, validate, and either raise (401, 400, or 500 for an
\* exception) or return the StreamingResponse with status 200.
completion_of(r, req) ==
    /\ pc[r] = "recv"
    /\ running = 0
    /\ request' = [request EXCEPT ![r] = req]
    /\ status' = [status EXCEPT ![r] = completion_status(req.auth, req.body)]
    /\ pc' = [pc EXCEPT ![r] =
                IF completion_status(req.auth, req.body) = 200
                THEN "open" ELSE "rejected"]
    /\ UNCHANGED << config, events, agent_response, idx, running, wrapper, call,
                    clock, stub >>

\* completion on any request of the server's clients
completion(r) == \E req \in Requests : completion_of(r, req)

\* stream_response mutated: the first sleep without the initial chunk
StreamInitial_silent(r) ==
    /\ pc[r] = "open"
    /\ running = 0
    /\ pc' = [pc EXCEPT ![r] = "sleep_initial"]
    /\ UNCHANGED << config, request, status, events, agent_response, idx,
                    running, wrapper, call, clock, stub >>

\* stream_response, lines 46-47: the initial chunk, then the first sleep
StreamInitial(r) ==
    /\ pc[r] = "open"
    /\ running = 0
    /\ events' = [events EXCEPT ![r] = Append(@, INITIAL_CHUNK)]
    /\ pc' = [pc EXCEPT ![r] = "sleep_initial"]
    /\ UNCHANGED << config, request, status, agent_response, idx, running,
                    wrapper, call, clock, stub >>

\* latest_message mutated: the first message of the list, messages[0]
latest_message_first(r) == request[r].body.messages[1]

\* `latest_message = messages[-1]` of a request that passed the checks
latest_message(r) ==
    request[r].body.messages[Len(request[r].body.messages)]

\* the frame of the get_response call of product_documentation_agent, lines
\* 111-129: the query, the code context and the formatted prompt
AgentCall(message) ==
    [NewCall("get_response") EXCEPT
        !.user_query = user_query(message),
        !.code_context = code_context(message),
        !.message = agent_input(message)]

\* product_documentation_agent up to the call of get_response.  With an
\* incomplete configuration it returns the error text and the loop starts;
\* otherwise it builds an AgentWrapper and calls get_response, a synchronous
\* function: the event loop is held until the call ends.
AgentEnter(r) ==
    /\ pc[r] = "sleep_initial"
    /\ running = 0
    /\ IF config_incomplete(config)
       THEN /\ agent_response' = [agent_response EXCEPT ![r] = CONFIG_ERROR_TEXT]
            /\ idx' = [idx EXCEPT ![r] = 1]
            /\ pc' = [pc EXCEPT ![r] = "words"]
            /\ UNCHANGED << running, wrapper, call >>
       ELSE /\ wrapper' = [wrapper EXCEPT ![r] = NewWrapper]
            /\ call' = [call EXCEPT ![r] = AgentCall(latest_message(r))]
            /\ running' = r
            /\ pc' = [pc EXCEPT ![r] = "rt_check"]
            /\ UNCHANGED << agent_response, idx >>
    /\ UNCHANGED << config, request, status, events, clock, stub >>

\* `doc_response = await pdocs_agent.get_response(agent_input)`: get_response
\* is a plain function, so its exception propagates, and its return value, a
\* str, is not awaitable: the await raises TypeError.  Either way the
\* exception leaves stream_response and the stream ends there.
AgentReturn(r) ==
    /\ pc[r] \in {"w_returned", "w_failed"}
    /\ running = r
    /\ call' = [call EXCEPT ![r].error =
                    IF pc[r] = "w_returned" THEN "TypeError" ELSE @]
    /\ pc' = [pc EXCEPT ![r] = "aborted"]
    /\ running' = 0
    /\ UNCHANGED << config, request, status, events, agent_response, idx,
                    wrapper, clock, stub >>

\* response_chunks of stream_response
response_chunks(r) == chunk_text(agent_response[r])

\* the loop mutated: its position is one counter for all the streams
StreamWord_shared_position(r) ==
    /\ pc[r] = "words"
    /\ running = 0
    /\ idx[r] <= Len(response_chunks(r))
    /\ events' = [events EXCEPT ![r] =
                    IF chunk_is_emitted(response_chunks(r)[idx[r]])
                    THEN Append(@, word_chunk(response_chunks(r)[idx[r]]))
                    ELSE @]
    /\ idx' = [s \in Reqs |-> idx[r] + 1]
    /\ UNCHANGED << config, request, pc, status, agent_response, running,
                    wrapper, call, clock, stub >>

\* one iteration of `for chunk in response_chunks`: a chunk that is not blank
\* is yielded with a trailing space, followed by a sleep
StreamWord(r) ==
    /\ pc[r] = "words"
    /\ running = 0
    /\ idx[r] <= Len(response_chunks(r))
    /\ events' = [events EXCEPT ![r] =
                    IF chunk_is_emitted(response_chunks(r)[idx[r]])
                    THEN Append(@, word_chunk(response_chunks(r)[idx[r]]))
                    ELSE @]
    /\ idx' = [idx EXCEPT ![r] = @ + 1]
    /\ UNCHANGED << config, request, pc, status, agent_response, running,
                    wrapper, call, clock, stub >>

\* lines 69-70: the keep-alive chunk after the loop
StreamKeepAlive(r) ==
    /\ pc[r] = "words"
    /\ running = 0
    /\ idx[r] > Len(response_chunks(r))
    /\ events' = [events EXCEPT ![r] = Append(@, KEEPALIVE_CHUNK)]
    /\ pc' = [pc EXCEPT ![r] = "sleep_keepalive"]
    /\ UNCHANGED << config, request, status, agent_response, idx, running,
                    wrapper, call, clock, stub >>

\* lines 73-75: the stop chunk
StreamFinal(r) ==
    /\ pc[r] = "sleep_keepalive"
    /\ running = 0
    /\ events' = [events EXCEPT ![r] = Append(@, final_chunk)]
    /\ pc' = [pc EXCEPT ![r] = "sleep_final"]
    /\ UNCHANGED << config, request, status, agent_response, idx, running,
                    wrapper, call, clock, stub >>

\* lines 78-80: the [DONE] chunk; the generator ends
StreamDone(r) ==
    /\ pc[r] = "sleep_final"
    /\ running = 0
    /\ events' = [events EXCEPT ![r] = Append(@, done_chunk)]
    /\ pc' = [pc EXCEPT ![r] = "done"]
    /\ UNCHANGED << config, request, status, agent_response, idx, running,
                    wrapper, call, clock, stub >>

\* ------------------------------------------------------------ AgentWrapper

\* How the refresh pass goes on once the access token is valid:
\* refresh_tokens_if_needed returns, get_response goes on to the chat call.
after_refresh(r) == IF call[r].mode = "refresh" THEN "w_returned" ELSE "chat"

\* refresh_tokens_if_needed, line 147: the check of the stored refresh token
RefreshCheck(r) ==
    /\ pc[r] = "rt_check"
    /\ LET tok == wrapper[r].refresh_token
           d == token_decision(tok, clock)
       IN /\ call' = [call EXCEPT
                        ![r].rt_seen = tok,
                        ![r].rt_at = clock,
                        ![r].at_entry = wrapper[r].access_token,
                        ![r].exp_token = IF Truthy(tok) THEN tok ELSE @,
                        ![r].exp_now = IF Truthy(tok) THEN clock ELSE @,
                        ![r].exp_result =
                            IF Truthy(tok) THEN is_token_expired(tok, clock) ELSE @,
                        ![r].error = IF d = "raise" THEN "DecodeError" ELSE @]
          /\ pc' = [pc EXCEPT ![r] =
                      CASE d = "issue" -> "post"
                        [] d = "keep" -> "at_check"
                        [] OTHER -> "w_failed"]
    /\ UNCHANGED << config, request, status, events, agent_response, idx,
                    running, wrapper, clock, stub >>

\* get_refresh_token mutated: a new refresh token also drops the stored
\* access token
PostRefresh_drops_access(r) ==
    /\ pc[r] = "post"
    /\ \E resp \in token_responses(config.api_base) :
        /\ call' = [call EXCEPT
                      ![r].posts = @ + 1,
                      ![r].post_token = resp.token,
                      ![r].error =
                          CASE resp.outcome = "ok" -> @
                            [] resp.outcome = "http_error" -> "Failed to issue refresh token"
                            [] OTHER -> "TransportError"]
        /\ wrapper' = [wrapper EXCEPT
                          ![r].refresh_token = stored_token(resp, @),
                          ![r].access_token =
                              IF resp.outcome = "ok" THEN NoneToken ELSE @]
        /\ pc' = [pc EXCEPT ![r] =
                    IF resp.outcome = "ok" THEN "at_check" ELSE "w_failed"]
    /\ UNCHANGED << config, request, status, events, agent_response, idx,
                    running, clock, stub >>

\* get_refresh_token: the POST; a response that is not a success raises, a
\* success stores the token of the response
PostRefresh(r) ==
    /\ pc[r] = "post"
    /\ \E resp \in token_responses(config.api_base) :
        /\ call' = [call EXCEPT
                      ![r].posts = @ + 1,
                      ![r].post_token = resp.token,
                      ![r].error =
                          CASE resp.outcome = "ok" -> @
                            [] resp.outcome = "http_error" -> "Failed to issue refresh token"
                            [] OTHER -> "TransportError"]
        /\ wrapper' = [wrapper EXCEPT ![r].refresh_token = stored_token(resp, @)]
        /\ pc' = [pc EXCEPT ![r] =
                    IF resp.outcome = "ok" THEN "at_check" ELSE "w_failed"]
    /\ UNCHANGED << config, request, status, events, agent_response, idx,
                    running, clock, stub >>

\* refresh_tokens_if_needed, line 149: the check of the stored access token
AccessCheck(r) ==
    /\ pc[r] = "at_check"
    /\ LET tok == wrapper[r].access_token
           d == token_decision(tok, clock)
       IN /\ call' = [call EXCEPT
                        ![r].at_seen = tok,
                        ![r].at_at = clock,
                        ![r].exp_token = IF Truthy(tok) THEN tok ELSE @,
                        ![r].exp_now = IF Truthy(tok) THEN clock ELSE @,
                        ![r].exp_result =
                            IF Truthy(tok) THEN is_token_expired(tok, clock) ELSE @,
                        ![r].error = IF d = "raise" THEN "DecodeError" ELSE @]
          /\ pc' = [pc EXCEPT ![r] =
                      CASE d = "issue" -> "put"
                        [] d = "keep" -> after_refresh(r)
                        [] OTHER -> "w_failed"]
    /\ UNCHANGED << config, request, status, events, agent_response, idx,
                    running, wrapper, clock, stub >>

\* get_access_token: the PUT, which carries the stored refresh token
PutAccess(r) ==
    /\ pc[r] = "put"
    /\ \E resp \in token_responses(config.api_base) :
        /\ call' = [call EXCEPT
                      ![r].puts = @ + 1,
                      ![r].put_token = resp.token,
                      ![r].put_arg = wrapper[r].refresh_token,
                      ![r].error =
                          CASE resp.outcome = "ok" -> @
                            [] resp.outcome = "http_error" -> "Failed to refresh access token"
                            [] OTHER -> "TransportError"]
        /\ wrapper' = [wrapper EXCEPT ![r].access_token = stored_token(resp, @)]
        /\ pc' = [pc EXCEPT ![r] =
                    IF resp.outcome = "ok" THEN after_refresh(r) ELSE "w_failed"]
    /\ UNCHANGED << config, request, status, events, agent_response, idx,
                    running, clock, stub >>

\* get_response, lines 181-276: the chat completion call with the stored
\* access token as api_key; it returns the content of the first choice or
\* raises
ChatCompletion(r) ==
    /\ pc[r] = "chat"
    /\ \E ok \in BOOLEAN : \E answer \in AgentAnswers :
        /\ ~ok => answer = CHOOSE a \in AgentAnswers : TRUE
        /\ call' = [call EXCEPT
                      ![r].chat_token = wrapper[r].access_token,
                      ![r].chat_calls = @ + 1,
                      ![r].result = IF ok THEN answer ELSE @,
                      ![r].error = IF ok THEN @ ELSE "ChatError"]
        /\ pc' = [pc EXCEPT ![r] = IF ok THEN "w_returned" ELSE "w_failed"]
    /\ UNCHANGED << config, request, status, events, agent_response, idx,
                    running, wrapper, clock, stub >>

\* ------------------------------------------------------------------- Spec

\* every step the handling of request r can take
RequestStep(r) ==
    \/ completion(r)
    \/ StreamInitial(r)
    \/ AgentEnter(r)
    \/ RefreshCheck(r)
    \/ PostRefresh(r)
    \/ AccessCheck(r)
    \/ PutAccess(r)
    \/ ChatCompletion(r)
    \/ AgentReturn(r)
    \/ StreamWord(r)
    \/ StreamKeepAlive(r)
    \/ StreamFinal(r)
    \/ StreamDone(r)

\* the server with NumReq requests on one event loop
Next == \E r \in Reqs : RequestStep(r)

Spec == Init /\ [][Next]_vars

\* the server handling a single request
NextSingle == RequestStep(1)

SpecSingle == Init /\ [][NextSingle]_vars

\* ------------------------------------------------------------ SpecWrapper
\* One AgentWrapper instance (that of index 1) lives on between calls: each
\* call is refresh_tokens_if_needed or get_response, and time passes.

\* a configuration with every value set
FullConfig == [api_base |-> "set", agent_id |-> "set",
               agent_key |-> "set", agent_endpoint |-> "set"]

InitWrapper ==
    /\ config = FullConfig
    /\ pc = [r \in Reqs |-> IF r = 1 THEN "w_idle" ELSE "recv"]
    /\ stub = <<>>
    /\ ServerVarsInit

\* a caller invokes refresh_tokens_if_needed or get_response on the instance
WrapperCall(r) ==
    /\ pc[r] \in {"w_idle", "w_returned", "w_failed"}
    /\ \E m \in {"refresh", "get_response"} :
        call' = [call EXCEPT ![r] = NewCall(m)]
    /\ pc' = [pc EXCEPT ![r] = "rt_check"]
    /\ UNCHANGED << config, request, status, events, agent_response, idx,
                    running, wrapper, clock, stub >>

\* time passes
Tick ==
    /\ clock < MaxClock
    /\ clock' = clock + 1
    /\ UNCHANGED << config, request, pc, status, events, agent_response, idx,
                    running, wrapper, call, stub >>

NextWrapper ==
    \/ WrapperCall(1)
    \/ RefreshCheck(1)
    \/ PostRefresh(1)
    \/ AccessCheck(1)
    \/ PutAccess(1)
    \/ ChatCompletion(1)
    \/ Tick

SpecWrapper == InitWrapper /\ [][NextWrapper]_vars

\* ------------------------------------------------------------- SpecStream
\* stream_response of one validated request, with product_documentation_agent
\* stubbed to return a fixed text.

Alphabet == {"a", "b", " ", "\n"}

Texts == UNION {[1..n -> Alphabet] : n \in 0..MaxLen}

ValidRequest ==
    [auth |-> "ghu_token",
     body |-> [kind |-> "object", has_messages |-> TRUE,
               messages |-> <<[has_content |-> TRUE, content |-> <<"q">>,
                               refs |-> NoReferences]>>]]

InitStream ==
    /\ config = FullConfig
    /\ stub \in Texts
    /\ ServerVarsInit
    /\ pc = [r \in Reqs |-> "recv"]

\* the stubbed product_documentation_agent returns its text
AgentStub(r) ==
    /\ pc[r] = "sleep_initial"
    /\ running = 0
    /\ agent_response' = [agent_response EXCEPT ![r] = stub]
    /\ idx' = [idx EXCEPT ![r] = 1]
    /\ pc' = [pc EXCEPT ![r] = "words"]
    /\ UNCHANGED << config, request, status, events, running, wrapper, call,
                    clock, stub >>

\* completion on a request that passes validation
completion_valid(r) ==
    /\ request' = [request EXCEPT ![r] = ValidRequest]
    /\ completion(r)

NextStream ==
    \/ completion_valid(1)
    \/ StreamInitial(1)
    \/ AgentStub(1)
    \/ StreamWord(1)
    \/ StreamKeepAlive(1)
    \/ StreamFinal(1)
    \/ StreamDone(1)

SpecStream == InitStream /\ [][NextStream]_vars

\* ------------------------------------------------------------- SpecPrompt
\* product_documentation_agent, lines 110-126, applied to a latest message
\* drawn from the messages a client can send.

LatestMessages ==
    {m \in [has_content : BOOLEAN, content : {<<"q">>, <<" ", "q", "\n">>},
            refs : ReferenceLists \cup {NoReferences}] :
        ~m.has_content => m.content = <<"q">>}

\* a request whose last message is m
PromptRequest(m) ==
    [auth |-> "ghu_token",
     body |-> [kind |-> "object", has_messages |-> TRUE, messages |-> <<m>>]]

InitPrompt ==
    /\ config = FullConfig
    /\ stub = <<>>
    /\ \E m \in LatestMessages :
        request = [r \in Reqs |-> IF r = 1 THEN PromptRequest(m) ELSE NoRequest]
    /\ pc = [r \in Reqs |-> IF r = 1 THEN "agent" ELSE "recv"]
    /\ status = [r \in Reqs |-> 0]
    /\ events = [r \in Reqs |-> <<>>]
    /\ agent_response = [r \in Reqs |-> <<>>]
    /\ idx = [r \in Reqs |-> 0]
    /\ running = 0
    /\ wrapper = [r \in Reqs |-> NewWrapper]
    /\ call = [r \in Reqs |-> NewCall("none")]
    /\ clock = 0

\* product_documentation_agent from its line 108 to the call of get_response
BuildPrompt(r) ==
    /\ pc[r] = "agent"
    /\ wrapper' = [wrapper EXCEPT ![r] = NewWrapper]
    /\ call' = [call EXCEPT ![r] = AgentCall(latest_message(r))]
    /\ pc' = [pc EXCEPT ![r] = "rt_check"]
    /\ UNCHANGED << config, request, status, events, agent_response, idx,
                    running, clock, stub >>

NextPrompt == BuildPrompt(1)

SpecPrompt == InitPrompt /\ [][NextPrompt]_vars

\* ---------------------------------------------------------------- SpecPair
\* Two requests that pass the checks of completion, on one event loop, under
\* any configuration.

Pair == {1, 2}

PairStep(r) ==
    \/ completion_valid(r)
    \/ StreamInitial(r)
    \/ AgentEnter(r)
    \/ RefreshCheck(r)
    \/ PostRefresh(r)
    \/ AccessCheck(r)
    \/ PutAccess(r)
    \/ ChatCompletion(r)
    \/ AgentReturn(r)
    \/ StreamWord(r)
    \/ StreamKeepAlive(r)
    \/ StreamFinal(r)
    \/ StreamDone(r)

NextPair == \E r \in Pair : PairStep(r)

SpecPair == Init /\ [][NextPair]_vars

\* -------------------------------------------------------- SpecConversation
\* Two requests whose message lists are conversations of up to MaxMsgs
\* messages, handled with get_response stubbed to return the same answer.

\* a reference to a file with content, as a one-element copilot_references
FileReferences ==
    [present |-> TRUE,
     list |-> << [type |-> "client.file", has_id |-> TRUE, id |-> "A",
                  has_data |-> TRUE, has_content |-> TRUE, content |-> "x"] >>]

\* the messages of a conversation: without content, with a content that has
\* or has not surrounding whitespace, with or without a file reference
ConversationMessages ==
    {[has_content |-> FALSE, content |-> <<"q">>, refs |-> NoReferences],
     [has_content |-> TRUE, content |-> <<"q">>, refs |-> NoReferences],
     [has_content |-> TRUE, content |-> <<" ", "p", "\n">>, refs |-> NoReferences],
     [has_content |-> TRUE, content |-> <<"q">>, refs |-> FileReferences]}

Conversations == UNION {[1..n -> ConversationMessages] : n \in 0..MaxMsgs}

ConversationRequests ==
    [auth : AuthValues,
     body : [kind : {"object"}, has_messages : {TRUE}, messages : Conversations]]

InitConversation ==
    /\ config = FullConfig
    /\ stub \in AgentAnswers
    /\ ServerVarsInit
    /\ pc = [r \in Reqs |-> "recv"]

completion_conversation(r) ==
    \E req \in ConversationRequests : completion_of(r, req)

\* product_documentation_agent with get_response stubbed: it builds the
\* query, the code context and the prompt, and returns the stubbed answer
AgentStubPrompt(r) ==
    /\ pc[r] = "sleep_initial"
    /\ running = 0
    /\ wrapper' = [wrapper EXCEPT ![r] = NewWrapper]
    /\ call' = [call EXCEPT ![r] = [AgentCall(latest_message(r)) EXCEPT !.result = stub]]
    /\ agent_response' = [agent_response EXCEPT ![r] = stub]
    /\ idx' = [idx EXCEPT ![r] = 1]
    /\ pc' = [pc EXCEPT ![r] = "words"]
    /\ UNCHANGED << config, request, status, events, running, clock, stub >>

ConversationStep(r) ==
    \/ completion_conversation(r)
    \/ StreamInitial(r)
    \/ AgentStubPrompt(r)
    \/ StreamWord(r)
    \/ StreamKeepAlive(r)
    \/ StreamFinal(r)
    \/ StreamDone(r)

NextConversation == \E r \in Pair : ConversationStep(r)

SpecConversation == InitConversation /\ [][NextConversation]_vars

\* ================================================================== claims

\* the last two chunks of a stream, or the whole stream if it is shorter
LastTwo(evs) ==
    IF Len(evs) >= 2 THEN SubSeq(evs, Len(evs) - 1, Len(evs)) ELSE evs

\* the generator of request r has ended, by its last chunk or by an exception
StreamEnded(r) == status[r] = 200 /\ pc[r] \in {"done", "aborted"}

\* request r is inside the call of the documentation agent
InAwaitingAgent(r) ==
    pc[r] \in {"rt_check", "post", "at_check", "put", "chat", "w_returned", "w_failed"}

\* the handling of request r has not ended
Unfinished(r) == pc[r] \notin {"rejected", "done", "aborted"}

\* the handler of request r has answered or failed
Handled(r) == pc[r] # "recv"

\* C1: every stream that was opened and has ended has emitted the stop delta
\* and then the [DONE] sentinel as its last two chunks, whether the call of
\* the documentation agent succeeded or failed (no stream is cut short).
C1_StreamAlwaysTerminated ==
    \A r \in Reqs :
        StreamEnded(r) => LastTwo(events[r]) = << final_chunk, done_chunk >>

\* C3: a request whose auth-token header is absent or empty gets exactly a
\* 401, whatever its body is, and no stream is opened and no agent call made.
C3_MissingAuthIs401 ==
    \A r \in Reqs :
        (Handled(r) /\ request[r].auth \in {NoneHeader, ""})
            => /\ status[r] = 401
               /\ events[r] = <<>>
               /\ call[r].mode = "none"

\* the messages list of the body of request r is missing or empty
NoMessages(r) ==
    /\ request[r].body.kind = "object"
    /\ ~request[r].body.has_messages \/ request[r].body.messages = <<>>

\* C4 as stated: a request whose messages list is missing or empty gets
\* exactly a 400 for every value of the auth header, and no stream is opened.
C4_NoMessagesIs400_AnyAuth ==
    \A r \in Reqs :
        (Handled(r) /\ NoMessages(r)) => (status[r] = 400 /\ events[r] = <<>>)

\* C4 amended: a request with a non-empty auth-token header whose messages
\* list is missing or empty gets exactly a 400, and no stream is opened.
C4_NoMessagesIs400 ==
    \A r \in Reqs :
        (Handled(r) /\ NoMessages(r) /\ request[r].auth \notin {NoneHeader, ""})
            => /\ status[r] = 400
               /\ pc[r] = "rejected"
               /\ events[r] = <<>>
               /\ call[r].mode = "none"

\* C4 witness: an authenticated request with an empty messages list was
\* rejected
C4_Witness ==
    \E r \in Reqs :
        /\ pc[r] = "rejected"
        /\ request[r].auth = "ghu_token"
        /\ request[r].body.kind = "object"
        /\ request[r].body.has_messages
        /\ request[r].body.messages = <<>>

\* C8: while one request is inside the agent call, every other request whose
\* handling has not ended can take its next step.
C8_AgentCallDoesNotBlockOthers ==
    \A r, s \in Reqs :
        (r # s /\ InAwaitingAgent(r) /\ Unfinished(s)) => ENABLED RequestStep(s)

\* ------------------------------------------------- claims on AgentWrapper

\* the token field holds no token
Absent(tok) == tok.kind = "none"

\* the token carries an exp claim that is not after `now`
ExpiredAt(tok, now) == tok.kind = "jwt" /\ tok.exp <= now

\* C5: in every call, a refresh-token POST is issued only if the stored
\* refresh token was absent or expired when the call checked it, an
\* access-token PUT only if the stored access token was absent or expired when
\* the call checked it; a call whose checks find both tokens present and
\* unexpired issues no token request.  No call issues two requests of a kind.
C5_TokenRequestsOnlyWhenNeeded ==
    \A r \in Reqs :
        /\ call[r].posts \in {0, 1} /\ call[r].puts \in {0, 1}
        /\ call[r].posts > 0 =>
              Absent(call[r].rt_seen) \/ ExpiredAt(call[r].rt_seen, call[r].rt_at)
        /\ call[r].puts > 0 =>
              Absent(call[r].at_seen) \/ ExpiredAt(call[r].at_seen, call[r].at_at)
        /\ ( /\ call[r].rt_at >= 0 /\ call[r].at_at >= 0
             /\ ~Absent(call[r].rt_seen) /\ ~ExpiredAt(call[r].rt_seen, call[r].rt_at)
             /\ ~Absent(call[r].at_seen) /\ ~ExpiredAt(call[r].at_seen, call[r].at_at) )
              => call[r].posts = 0 /\ call[r].puts = 0

\* C5 witness: a later call on the instance returned having found both stored
\* tokens present and unexpired, after time has passed, with no token request
C5_Witness ==
    /\ pc[1] = "w_returned"
    /\ clock > 0
    /\ call[1].posts = 0 /\ call[1].puts = 0
    /\ call[1].rt_seen.kind = "jwt" /\ call[1].at_seen.kind = "jwt"

C7_ThreeOutcomes ==
    \A r \in Reqs :
        call[r].exp_result # "none" =>
            LET t == call[r].exp_token
                now == call[r].exp_now
                res == call[r].exp_result
            IN /\ (t.kind = "jwt" /\ t.exp < now) => res = "True"
               /\ (t.kind = "jwt" /\ t.exp > now) => res = "False"
               /\ t.kind \in {"noexp", "malformed"} => res = "DecodeError"

\* C7 amended: is_token_expired gives True for an exp claim in the past,
\* False for an exp claim in the future and also for a well-formed token with
\* no exp claim, and a decode error for a token with a malformed structure.
C7_NoExpIsUnexpired ==
    \A r \in Reqs :
        call[r].exp_result # "none" =>
            LET t == call[r].exp_token
                now == call[r].exp_now
                res == call[r].exp_result
            IN /\ (t.kind = "jwt" /\ t.exp < now) => res = "True"
               /\ (t.kind = "jwt" /\ t.exp > now) => res = "False"
               /\ t.kind = "noexp" => res = "False"
               /\ t.kind = "malformed" => res = "DecodeError"

\* C7 witness: a stored token without exp claim was checked and kept
C7_Witness ==
    /\ call[1].exp_token.kind = "noexp"
    /\ call[1].exp_result = "False"
    /\ pc[1] \in {"at_check", "chat", "w_returned"}

\* ----------------------------------------------------- claims on the stream

\* The whitespace-delimited words of a text, stated by position: a word starts
\* at a symbol that is no whitespace and follows whitespace or nothing, and
\* runs to the last symbol before the next whitespace or the end.
WordStarts(t) ==
    {i \in 1..Len(t) : ~IsSpace(t[i]) /\ (i = 1 \/ IsSpace(t[i - 1]))}

WordEnd(t, i) ==
    CHOOSE j \in i..Len(t) :
        /\ \A k \in i..j : ~IsSpace(t[k])
        /\ j = Len(t) \/ IsSpace(t[j + 1])

NthStart(t, n) ==
    CHOOSE i \in WordStarts(t) : Cardinality({j \in WordStarts(t) : j < i}) = n - 1

WordsOf(t) ==
    [n \in 1..Cardinality(WordStarts(t)) |->
        SubSeq(t, NthStart(t, n), WordEnd(t, NthStart(t, n)))]

\* the stream the answer t calls for: the empty delta, one delta per word,
\* the blank delta, the stop delta, the sentinel
ExpectedStream(t) ==
    << Delta(<<>>) >>
        \o [n \in 1..Len(WordsOf(t)) |-> Delta(WordsOf(t)[n] \o <<" ">>)]
        \o << Delta(<<" ">>), final_chunk, done_chunk >>

IsPrefix(s, t) == Len(s) <= Len(t) /\ SubSeq(t, 1, Len(s)) = s

\* the generator of request r has the agent's answer
HasAnswer(r) == pc[r] \in {"words", "sleep_keepalive", "sleep_final", "done"}

\* C2: the chunks of a stream are, in this order and with nothing else, the
\* initial empty delta, one delta per whitespace-delimited word of the answer
\* in the answer's order, the blank keep-alive delta, the stop delta and
\* [DONE]: at every moment the stream is a prefix of that sequence, and a
\* completed stream is all of it, so nothing follows [DONE].
C2_StrictEventOrder ==
    \A r \in Reqs :
        /\ ~HasAnswer(r) => events[r] \in {<<>>, << Delta(<<>>) >>}
        /\ HasAnswer(r) => IsPrefix(events[r], ExpectedStream(agent_response[r]))
        /\ pc[r] = "done" => events[r] = ExpectedStream(agent_response[r])

\* C2 witness: a stream of an answer of two words, unevenly spaced, is complete
C2_Witness ==
    /\ pc[1] = "done"
    /\ Len(WordsOf(agent_response[1])) = 2
    /\ Len(agent_response[1]) = 4

\* the contents of the deltas that carry text, concatenated
RECURSIVE ConcatContents(_)
ConcatContents(evs) ==
    IF evs = <<>> THEN <<>>
    ELSE (IF Head(evs).kind = "delta" /\ ~Head(evs).null
          THEN Head(evs).content ELSE <<>>) \o ConcatContents(Tail(evs))

\* a text without its leading and trailing whitespace
Trim(t) ==
    LET solid == {i \in 1..Len(t) : ~IsSpace(t[i])}
    IN IF solid = {} THEN <<>>
       ELSE SubSeq(t, CHOOSE i \in solid : \A j \in solid : i <= j,
                      CHOOSE i \in solid : \A j \in solid : i >= j)

RECURSIVE JoinWords(_)
JoinWords(ws) ==
    IF Len(ws) = 0 THEN <<>>
    ELSE IF Len(ws) = 1 THEN ws[1]
    ELSE ws[1] \o <<" ">> \o JoinWords(Tail(ws))

\* no whitespace at either end, and between two words one space character
SingleSpaced(t) ==
    /\ t # <<>> => ~IsSpace(t[1]) /\ ~IsSpace(t[Len(t)])
    /\ \A i \in 1..Len(t) : IsSpace(t[i]) => t[i] = " "
    /\ \A i \in 1..(Len(t) - 1) : ~(IsSpace(t[i]) /\ IsSpace(t[i + 1]))

\* C9 as stated: the concatenated contents of a completed stream, stripped of
\* leading and trailing padding, are exactly the agent's answer, for every
\* answer.
C9_RoundTripExact ==
    \A r \in Reqs :
        pc[r] = "done" => Trim(ConcatContents(events[r])) = agent_response[r]

\* C9 amended: the concatenated contents of a completed stream, stripped of
\* leading and trailing padding, are the words of the agent's answer joined by
\* single spaces; that is the answer itself exactly when the answer has no
\* whitespace at its ends and single space characters between its words.
C9_RoundTripWords ==
    \A r \in Reqs :
        pc[r] = "done" =>
            /\ Trim(ConcatContents(events[r])) = JoinWords(WordsOf(agent_response[r]))
            /\ SingleSpaced(agent_response[r])
                  <=> Trim(ConcatContents(events[r])) = agent_response[r]

\* C9 witness: the stream of an answer with a newline between two words is
\* complete
C9_Witness ==
    /\ pc[1] = "done"
    /\ agent_response[1] = << "a", "\n", "b" >>

\* the chunks between the initial delta and the keep-alive delta
WordDeltas(r) == SubSeq(events[r], 2, Len(events[r]) - 1)

\* the content has a symbol that is no whitespace
NotBlank(content) == \E i \in 1..Len(content) : ~IsSpace(content[i])

\* C10: once the keep-alive delta is out, the deltas between the initial
\* delta and the keep-alive are as many as the answer has words, the i-th is
\* the i-th word followed by one space, and none is empty or blank; an empty
\* or blank answer gives none.  No blank delta is emitted during the loop.
C10_OneDeltaPerWord ==
    \A r \in Reqs :
        /\ pc[r] = "sleep_keepalive" =>
              LET ws == WordsOf(agent_response[r])
              IN /\ Len(WordDeltas(r)) = Len(ws)
                 /\ \A i \in 1..Len(ws) :
                       /\ WordDeltas(r)[i].content = ws[i] \o <<" ">>
                       /\ ~WordDeltas(r)[i].null
                       /\ WordDeltas(r)[i].kind = "delta"
        /\ pc[r] = "words" =>
              \A i \in 2..Len(events[r]) : NotBlank(events[r][i].content)

\* C10 witness: the loop has run over a blank, non-empty answer and the
\* keep-alive follows the initial delta directly
C10_Witness ==
    /\ pc[1] = "sleep_keepalive"
    /\ agent_response[1] # <<>>
    /\ WordsOf(agent_response[1]) = <<>>
    /\ Len(events[1]) = 2

\* ---------------------------------------------------------------- C11

\* the positions of the references of type client.file that carry data.content
Qualifying(refs) ==
    {i \in 1..Len(refs) :
        refs[i].type = "client.file" /\ refs[i].has_data /\ refs[i].has_content}

\* the j-th of them in the order of the list
NthQualifying(refs, j) ==
    CHOOSE i \in Qualifying(refs) :
        Cardinality({k \in Qualifying(refs) : k < i}) = j - 1

\* the references a message carries
MessageRefs(m) == IF m.refs.present THEN m.refs.list ELSE <<>>

\* C11: the code context built from the latest message holds one labeled
\* block (the file id, then the content) for each reference of type
\* client.file that carries data.content and nothing for any other reference,
\* the blocks in the order of the references and joined by the separator;
\* with no such reference it is exactly "NO CODE CONTEXT PROVIDED.".
C11_ContextExtraction ==
    \A r \in Reqs :
        call[r].mode = "get_response" =>
            LET refs == MessageRefs(latest_message(r))
                n == Cardinality(Qualifying(refs))
                ctx == call[r].code_context
            IN IF n = 0
               THEN ctx = <<"NO CODE CONTEXT PROVIDED.">>
               ELSE /\ Len(ctx) = 5 * n - 1
                    /\ \A j \in 1..n :
                        LET ref == refs[NthQualifying(refs, j)]
                            b == 5 * (j - 1)
                        IN /\ ctx[b + 1] = "\n\nFILENAME:\n"
                           /\ ref.has_id => ctx[b + 2] = ref.id
                           /\ ctx[b + 3] = "\n\nCODE CONTENT:\n"
                           /\ ctx[b + 4] = ref.content
                           /\ j < n => ctx[b + 5] = "\n\n---\n\n"

\* a context was built from two references of type client.file of which only
\* the second carries data.content
C11_Witness ==
    /\ call[1].mode = "get_response"
    /\ LET refs == MessageRefs(latest_message(1))
       IN /\ Len(refs) = 2
          /\ Qualifying(refs) = {2}
          /\ refs[1].type = "client.file"
          /\ Len(call[1].code_context) = 4

\* ---------------------------------------------------------------- C12

\* the token requests and chat calls request r has attempted
NetworkCalls(r) == call[r].posts + call[r].puts + call[r].chat_calls

\* C12: no outbound network call (refresh-token POST, access-token PUT, chat
\* completion) is attempted unless api_base, agent_id, agent_key and
\* agent_endpoint are all non-empty.
C12_NoCallUnlessFourValues ==
    \A r \in Reqs :
        NetworkCalls(r) > 0 =>
            /\ config.api_base # ""
            /\ config.agent_id # ""
            /\ config.agent_key # ""
            /\ config.agent_endpoint # ""

\* ---------------------------------------------------------------- C13

\* a required configuration value is missing
RequiredValueMissing ==
    config.agent_id = "" \/ config.agent_key = "" \/ config.agent_endpoint = ""

\* the words of the fixed message, each followed by a space
CONFIG_ERROR_WORDS ==
    << <<"Error:", " ">>, <<"Agent", " ">>, <<"configuration", " ">>,
       <<"incomplete.", " ">>, <<"Please", " ">>, <<"check", " ">>,
       <<"environment", " ">>, <<"variables.", " ">> >>

\* the stream of the fixed message
CONFIG_ERROR_STREAM ==
    << Delta(<<>>) >>
        \o [n \in 1..Len(CONFIG_ERROR_WORDS) |-> Delta(CONFIG_ERROR_WORDS[n])]
        \o << Delta(<<" ">>), final_chunk, done_chunk >>

\* request r carries a non-empty auth token and a non-empty message list
\* whose last message has a content
ValidatedWithContent(r) ==
    /\ Handled(r)
    /\ request[r].auth \notin {NoneHeader, ""}
    /\ request[r].body.kind = "object"
    /\ request[r].body.messages # <<>>
    /\ request[r].body.messages[Len(request[r].body.messages)].has_content

\* C13: when agent_id, agent_key or agent_endpoint is missing, a validated
\* request gets status 200 and a stream that never fails: it grows along
\* <<empty delta, one delta per word of "Error: Agent configuration
\* incomplete. Please check environment variables.", keep-alive, stop,
\* [DONE]>>, can always take its next step, ends as exactly that sequence,
\* and makes no network call.
C13_MissingConfigStreamsMessage ==
    \A r \in Reqs :
        (RequiredValueMissing /\ ValidatedWithContent(r)) =>
            /\ status[r] = 200
            /\ pc[r] # "aborted"
            /\ NetworkCalls(r) = 0
            /\ IsPrefix(events[r], CONFIG_ERROR_STREAM)
            /\ pc[r] = "done" => events[r] = CONFIG_ERROR_STREAM
            /\ pc[r] # "done" => ENABLED RequestStep(r)

\* a stream of the fixed message has completed
C13_Witness ==
    /\ RequiredValueMissing
    /\ ValidatedWithContent(1)
    /\ pc[1] = "done"
    /\ Len(events[1]) = 12

\* ---------------------------------------------------------------- C14

\* C14 as stated: no chunk of a stream, the initial empty delta included, is
\* emitted before the call of the documentation agent of that request has
\* returned.
C14_NoEventBeforeAgentReturned ==
    \A r \in Reqs : events[r] # <<>> => HasAnswer(r)

\* C14: the stream is opened and its initial empty delta is emitted after
\* validation and before the call of the documentation agent; that delta is
\* the only chunk emitted until the call has returned, and every other chunk
\* follows the return.
C14_OnlyInitialBeforeAgentReturned ==
    \A r \in Reqs :
        /\ events[r] # <<>> => (status[r] = 200 /\ events[r][1] = Delta(<<>>))
        /\ (pc[r] = "sleep_initial" \/ InAwaitingAgent(r)) => events[r] = << Delta(<<>>) >>
        /\ Len(events[r]) > 1 => HasAnswer(r)

\* the call of the documentation agent is in progress and the initial delta
\* is already on the stream
C14_Witness ==
    /\ InAwaitingAgent(1)
    /\ call[1].posts = 1
    /\ events[1] = << Delta(<<>>) >>

\* ---------------------------------------------------------------- C15

\* request r carries a non-empty auth token and a non-empty message list
TokenAndMessages(r) ==
    /\ Handled(r)
    /\ request[r].auth \notin {NoneHeader, ""}
    /\ request[r].body.kind = "object"
    /\ request[r].body.messages # <<>>

\* C15: every request with a non-empty auth token and a non-empty message
\* list is answered 200 with a stream, whatever the fields of its last
\* message, one without content included.
C15_TokenAndMessagesOpenStream ==
    \A r \in Reqs : TokenAndMessages(r) => status[r] = 200

\* ---------------------------------------------------------------- C16

\* C16: a token request that fails is not retried and corrupts no stored
\* token.  When the refresh-token POST is answered with a non-success status
\* the call fails with "Failed to issue refresh token", no PUT is made and
\* both stored tokens are those of the beginning of the call; when the
\* access-token PUT is answered with a non-success status the call fails with
\* "Failed to refresh access token" and the stored access token is that of
\* the beginning of the call.  A call makes at most one POST and one PUT, and
\* a call that failed on a token request makes no chat call.
C16_TokenFailureNotRetried ==
    \A r \in Reqs :
        /\ call[r].posts <= 1
        /\ call[r].puts <= 1
        /\ call[r].error = "Failed to issue refresh token" =>
            /\ pc[r] \in {"w_failed", "aborted"}
            /\ call[r].posts = 1
            /\ call[r].puts = 0
            /\ call[r].chat_calls = 0
            /\ wrapper[r].refresh_token = call[r].rt_seen
            /\ wrapper[r].access_token = call[r].at_entry
        /\ call[r].error = "Failed to refresh access token" =>
            /\ pc[r] \in {"w_failed", "aborted"}
            /\ call[r].puts = 1
            /\ call[r].chat_calls = 0
            /\ wrapper[r].access_token = call[r].at_entry
            /\ call[r].at_entry = call[r].at_seen

\* a POST failed on an instance that held an expired refresh token and a
\* valid access token, both still stored
C16_Witness ==
    /\ pc[1] = "w_failed"
    /\ call[1].error = "Failed to issue refresh token"
    /\ Truthy(wrapper[1].refresh_token)
    /\ Truthy(wrapper[1].access_token)

\* ---------------------------------------------------------------- C17

\* the token decodes and is not expired at `now`
PresentUnexpiredAt(tok, now) ==
    tok.kind \in {"jwt", "noexp"} /\ ~ExpiredAt(tok, now)

\* C17: every chat-completion call is made with the access token that the
\* refresh pass of the same get_response call either found present and
\* unexpired or obtained by its own PUT; no chat call is made with an absent
\* access token, by a call other than get_response, or after a refresh pass
\* that failed.
C17_ChatTokenCheckedOrIssued ==
    \A r \in Reqs :
        call[r].chat_calls > 0 =>
            /\ call[r].chat_calls = 1
            /\ call[r].mode = "get_response"
            /\ call[r].at_at >= 0
            /\ call[r].error \in {"none", "ChatError", "TypeError"}
            /\ ~Absent(call[r].chat_token)
            /\ IF call[r].puts = 1
               THEN call[r].chat_token = call[r].put_token
               ELSE /\ call[r].chat_token = call[r].at_seen
                    /\ PresentUnexpiredAt(call[r].at_seen, call[r].at_at)

\* a chat call was made with a stored access token that the pass kept
C17_Witness ==
    /\ call[1].chat_calls = 1
    /\ call[1].puts = 0
    /\ call[1].posts = 1
    /\ call[1].chat_token = call[1].at_seen

\* ---------------------------------------------------------------- C18

\* the token is absent, or expired at `now`
AbsentOrExpiredAt(tok, now) == Absent(tok) \/ ExpiredAt(tok, now)

\* C18: the two stages of a refresh pass are independent.  A pass that finds
\* the refresh token absent or expired and the access token present and
\* unexpired makes exactly one POST and no PUT and leaves the stored access
\* token as it was; a pass that finds the refresh token present and unexpired
\* and the access token absent or expired makes no POST and exactly one PUT,
\* which carries the stored refresh token, and leaves the stored refresh
\* token as it was.
C18_StagesIndependent ==
    \A r \in Reqs :
        (call[r].rt_at >= 0 /\ call[r].at_at >= 0) =>
            /\ ( /\ AbsentOrExpiredAt(call[r].rt_seen, call[r].rt_at)
                 /\ PresentUnexpiredAt(call[r].at_entry, call[r].at_at) ) =>
                    /\ call[r].posts = 1
                    /\ call[r].puts = 0
                    /\ wrapper[r].access_token = call[r].at_entry
            /\ ( /\ PresentUnexpiredAt(call[r].rt_seen, call[r].rt_at)
                 /\ AbsentOrExpiredAt(call[r].at_seen, call[r].at_at) ) =>
                    /\ call[r].posts = 0
                    /\ wrapper[r].refresh_token = call[r].rt_seen
                    /\ pc[r] # "put" =>
                        (call[r].puts = 1 /\ call[r].put_arg = call[r].rt_seen)

\* a pass renewed an expired refresh token and kept the valid access token
C18_Witness ==
    /\ pc[1] = "w_returned"
    /\ call[1].mode = "refresh"
    /\ ExpiredAt(call[1].rt_seen, call[1].rt_at)
    /\ call[1].posts = 1
    /\ call[1].puts = 0
    /\ wrapper[1].access_token = call[1].at_entry
    /\ ~Absent(call[1].at_entry)

\* ---------------------------------------------------------------- C19

\* C19: every request that reaches the agent call works on an AgentWrapper
\* of its own whose two tokens are absent when the refresh pass begins, its
\* PUT carries the refresh token its own POST returned and its chat call the
\* access token its own PUT returned, so no token passes from one request to
\* another; the request makes at most one POST, then at most one PUT, then at
\* most one chat call, in this order, and when every upstream call succeeded
\* it has made exactly one of each.
C19_OwnTokensInOrder ==
    \A r \in Pair :
        call[r].mode = "get_response" =>
            /\ call[r].rt_at >= 0 => (Absent(call[r].rt_seen) /\ Absent(call[r].at_entry))
            /\ call[r].at_at >= 0 => Absent(call[r].at_seen)
            /\ call[r].posts <= 1 /\ call[r].puts <= 1 /\ call[r].chat_calls <= 1
            /\ call[r].puts > 0 =>
                (call[r].posts = 1 /\ call[r].put_arg = call[r].post_token)
            /\ call[r].chat_calls > 0 =>
                (call[r].puts = 1 /\ call[r].chat_token = call[r].put_token)
            /\ (pc[r] = "w_returned" \/ call[r].error = "TypeError") =>
                (call[r].posts = 1 /\ call[r].puts = 1 /\ call[r].chat_calls = 1)

\* both requests have made their chat call, each with tokens of its own
C19_Witness ==
    /\ call[1].chat_calls = 1
    /\ call[2].chat_calls = 1
    /\ call[1].error = "TypeError"
    /\ pc[2] = "w_returned"
    /\ call[1].chat_token # call[2].chat_token

\* ---------------------------------------------------------------- C20

\* the chunks a validated request produces when it is handled alone: the
\* stream of the fixed message when a required value is missing, and else
\* the initial delta, after which the agent call ends the stream
AloneStream ==
    IF RequiredValueMissing THEN CONFIG_ERROR_STREAM ELSE << Delta(<<>>) >>

\* the generator of request r is in one of its sleeps
AtPacingDelay(r) ==
    \/ pc[r] \in {"sleep_initial", "sleep_keepalive", "sleep_final"}
    \/ pc[r] = "words" /\ idx[r] > 1

\* C20: with two validated requests in flight, whatever the interleaving,
\* the chunks of each stream are at every moment a prefix of the sequence the
\* request produces alone and, when the stream has ended, all of it; and
\* whenever one generator is in a sleep the other request, unless it has
\* ended, can take its next step.
C20_StreamsIndependent ==
    \A r \in Pair :
        /\ IsPrefix(events[r], AloneStream)
        /\ pc[r] \in {"done", "aborted"} => events[r] = AloneStream
        /\ \A s \in Pair \ {r} :
            (AtPacingDelay(r) /\ Unfinished(s)) => ENABLED PairStep(s)

\* both streams are in the word loop at different positions
C20_Witness ==
    /\ pc[1] = "words"
    /\ pc[2] = "words"
    /\ idx[1] = 2
    /\ idx[2] = 5
    /\ Len(events[2]) > Len(events[1])

\* ---------------------------------------------------------------- C21

\* the last message of the list of request r
LastMessage(r) == request[r].body.messages[Len(request[r].body.messages)]

\* requests r and s carry the same auth header and message lists with the
\* same last message
SameAuthAndLastMessage(r, s) ==
    /\ Handled(r) /\ Handled(s)
    /\ request[r].auth = request[s].auth
    /\ request[r].body.messages # <<>>
    /\ request[s].body.messages # <<>>
    /\ LastMessage(r) = LastMessage(s)

\* C21: two requests with the same auth header and the same last message,
\* whatever their earlier messages, get the same status, build the same user
\* query, the same code context and the same agent input and, the agent
\* giving both the same answer, produce the same stream: at every moment one
\* stream is a prefix of the other, and two completed streams are equal.
C21_OnlyLastMessageMatters ==
    \A r, s \in Pair :
        SameAuthAndLastMessage(r, s) =>
            /\ status[r] = status[s]
            /\ (HasAnswer(r) /\ HasAnswer(s)) =>
                /\ call[r].user_query = call[s].user_query
                /\ call[r].code_context = call[s].code_context
                /\ call[r].message = call[s].message
            /\ IsPrefix(events[r], events[s]) \/ IsPrefix(events[s], events[r])
            /\ (pc[r] = "done" /\ pc[s] = "done") => events[r] = events[s]

\* two completed requests with the same last message, a file reference in
\* it, and different earlier messages
C21_Witness ==
    /\ SameAuthAndLastMessage(1, 2)
    /\ Len(request[1].body.messages) = 1
    /\ Len(request[2].body.messages) = 2
    /\ request[2].body.messages[1] # request[2].body.messages[2]
    /\ LastMessage(1).refs.present
    /\ pc[1] = "done" /\ pc[2] = "done"
    /\ Len(call[1].code_context) = 4
    /\ events[1] = events[2]

=============================================================================
